---- MODULE Spec2Model ----
(***************************************************************************)
(* Model of django-initd (src/initd.py): the Initd lifecycle verbs start,  *)
(* stop, restart and status, the double-fork daemonization, the pid file   *)
(* and the SIGTERM / SIGALRM shutdown protocol.                            *)
(*                                                                         *)
(* Every operating-system process is one index of Procs and proc[p] holds  *)
(* its state.  A verb invoked by the operator runs in a fresh process (a   *)
(* root); fork() in p creates the process Child(p).  One action is one     *)
(* system call (or one block of purely local code) of the Python source,   *)
(* so that the calls of different processes interleave.  When a process    *)
(* ends, the kernel's and the interpreter's state of it is discarded and   *)
(* only what it printed and what it signalled is kept.                     *)
(* Only the POSIX become_daemon is modelled: the module imports pwd        *)
(* unconditionally (line 12), which exists on POSIX platforms only.        *)
(***************************************************************************)
EXTENDS Integers, Sequences, FiniteSets, TLC

(* ------------------------------ bounds -------------------------------- *)
\* Number of commands (verbs) the operator invokes, possibly concurrently.
MaxCmds == 2
\* Number of termination signals that reach the daemons from elsewhere than
\* stop() (the operator's kill, the system going down).
MaxKills == 1

(* ------------------------- program constants -------------------------- *)
\* signal.alarm(5): seconds between the shutdown request and forced exit.
AlarmSeconds == 5

(* ---------------------------- processes ------------------------------- *)
\* Process 1 is an unrelated live process and 2 the pid of a process that
\* has died.  The roots come next, then their first-fork children, then the
\* daemons (the second-fork children).
Roots == 3..(2 + MaxCmds)
Procs == 1..(2 + 3 * MaxCmds)
Child(p) == p + MaxCmds
Root(p) == IF p <= 2 + MaxCmds THEN p
           ELSE IF p <= 2 + 2 * MaxCmds THEN p - MaxCmds
           ELSE p - 2 * MaxCmds
Daemons == {Child(Child(r)) : r \in Roots}

VARIABLES
    pidfile,    \* the file at self.pid_file: [exists, data (decimal digits)]
    proc,       \* proc[p]: the state of process p, a record of
                \*   pc        position in the code
                \*   verb      the action given to execute()
                \*   pid       the local variable `pid` read from the pid file
                \*   cred      "orig", "gid" (setgid done), "both" (setuid too);
                \*             followed until the process daemonizes
                \*   handler   SIGTERM is handled by cb_term_handler
                \*   pending   a SIGTERM is delivered, its handler has not run
                \*   inExit    cb_term_handler frames that are inside exit()
                \*   exits     (history) number of times exit() was invoked
                \*   running   running[0]
                \*   alarm     seconds until SIGALRM (0: no alarm armed)
                \*   unwinding an uncaught exception is leaving the loop
                \*   raised    the last run() that ended raised an Exception
                \*   out       last line the verb wrote to stdout
                \*   err       the fatal setup error the process logged
                \*   sigTo     (history) pid the process delivered SIGTERM to
                \*   raced     (history) the pid file was written after the
                \*             start() of this process had probed it
    exitCb,     \* whether an exit callback is supplied to start()
    kills       \* number of SIGTERMs sent so far from elsewhere than stop()

vars == <<pidfile, proc, exitCb, kills>>

(* --------------------------- pure helpers ----------------------------- *)
\* str(os.getpid()): the decimal digits of n, most significant first.
RECURSIVE str(_)
str(n) == IF n < 10 THEN <<n>> ELSE Append(str(n \div 10), n % 10)

\* int(stream.read()) on a non-empty digit string.
RECURSIVE int(_)
int(s) == IF Len(s) = 0 THEN 0
          ELSE 10 * int(SubSeq(s, 1, Len(s) - 1)) + s[Len(s)]

NoFile == [exists |-> FALSE, data |-> <<>>]
File(d) == [exists |-> TRUE, data |-> d]

\* A process that does not exist (yet).
NoProc == [pc |-> "none", verb |-> "", pid |-> 0, cred |-> "orig",
           handler |-> FALSE, pending |-> FALSE, inExit |-> 0,
           exits |-> 0,
           running |-> FALSE, alarm |-> 0, unwinding |-> FALSE,
           raised |-> FALSE, out |-> "", err |-> "", sigTo |-> 0,
           raced |-> FALSE]

\* Positions at which a process no longer exists.
Terminal == {"none", "returned", "exit0", "exit1", "crashed", "killed"}

\* Process record r after the process ended at position `how`: its state is
\* gone; what it printed stays on the terminal and the history is kept.
End(r, how) == [NoProc EXCEPT !.pc = how, !.verb = r.verb, !.out = r.out,
                              !.err = r.err, !.sigTo = r.sigTo]

\* Process record r after the fatal error `what` was logged and sys.exit(1)
\* called; the credentials it had at that point are kept as history.
Fatal(r, what) == [End([r EXCEPT !.err = what], "exit1") EXCEPT
                     !.cred = r.cred]

\* os.kill(q, sig) finds a process: q names a process that has not ended.
Alive(q) == q \in Procs /\ proc[q].pc \notin Terminal

\* The daemon is inside `while running[0]: run()`.
InRunLoop(p) == proc[p].pc \in {"loop", "run"}

\* The main flow of p can take a step: it is not suspended under a handler.
Runnable(p) == proc[p].inExit = 0

\* The pid file holds the decimal pid q.
Names(q) == pidfile.exists /\ pidfile.data = str(q)

\* p takes a step that changes its own record only.
Step(p, r) == proc' = [proc EXCEPT ![p] = r]

\* os.remove(self.pid_file) unlinks the name; a writer that has the file
\* open keeps writing to the unlinked inode.
Unlinked(f) == [q \in Procs |->
                  IF f[q].pc = "create_write"
                  THEN [f[q] EXCEPT !.pc = "create_orphan"] ELSE f[q]]

(* ----------------------------- execute -------------------------------- *)
Verbs == {"start", "stop", "restart", "status"}

\* An execute() that runs start whatever the action.
EntryIgnoresAction(v) == "start_exists"

\* Lines 249-251: cmd = getattr(self, action); the first statement of each
\* verb.
Entry(v) == CASE v = "start" -> "start_exists"
              [] v = "stop" -> "stop_open"
              [] v = "restart" -> "restart_exists"
              [] v = "status" -> "status_exists"

\* The operator runs the command with verb v in a new process r, at any time
\* (the roots are taken in order).
execute(r, v) ==
    /\ proc[r].pc = "none"
    /\ r - 1 \in Roots => proc[r - 1].pc # "none"
    /\ Step(r, [NoProc EXCEPT !.pc = Entry(v), !.verb = v])
    /\ UNCHANGED <<pidfile, exitCb, kills>>

(* ------------------------------ Init ---------------------------------- *)
\* The pid file is absent, or was left behind naming process 1 or 2.
Init ==
    /\ pidfile \in {NoFile, File(str(1)), File(str(2))}
    /\ proc = [p \in Procs |->
                 IF p = 1 THEN [NoProc EXCEPT !.pc = "alien"]
                 ELSE IF p = 2 THEN [NoProc EXCEPT !.pc = "exit0"]
                 ELSE NoProc]
    /\ exitCb \in BOOLEAN
    /\ kills = 0

(* ------------------------------ start --------------------------------- *)
\* A start() that does not look for an existing pid file.
StartExistsSkipped(p) ==
    /\ proc[p].pc = "start_exists"
    /\ Step(p, [proc[p] EXCEPT !.pc = "start_user"])
    /\ UNCHANGED <<pidfile, exitCb, kills>>

\* Line 106: os.path.exists(self.pid_file).
StartExists(p) ==
    /\ proc[p].pc = "start_exists"
    /\ Step(p, [proc[p] EXCEPT !.pc = IF pidfile.exists THEN "start_read"
                                      ELSE "start_user"])
    /\ UNCHANGED <<pidfile, exitCb, kills>>

\* Lines 107-108: open(self.pid_file, 'r'); pid = int(stream.read()).  A file
\* removed since the test raises IOError, an empty one ValueError; neither is
\* caught.
StartRead(p) ==
    /\ proc[p].pc = "start_read"
    /\ IF pidfile.exists /\ Len(pidfile.data) > 0
       THEN Step(p, [proc[p] EXCEPT !.pc = "start_kill",
                                    !.pid = int(pidfile.data)])
       ELSE Step(p, End(proc[p], "crashed"))
    /\ UNCHANGED <<pidfile, exitCb, kills>>

\* A start() that goes on whatever the probe answers.
AfterProbeIgnored(alive) == "start_user"

\* Lines 109-117: the outcome of os.kill(pid, 0): no OSError means 'Daemon
\* already running.' and return, OSError means go on.
AfterProbe(alive) == IF alive THEN "returned" ELSE "start_user"

\* A start() that deletes the pid file it finds stale.
StartKillHeals(p) ==
    /\ proc[p].pc = "start_kill"
    /\ IF AfterProbe(Alive(proc[p].pid)) = "returned"
       THEN Step(p, End(proc[p], "returned")) /\ pidfile' = pidfile
       ELSE Step(p, [proc[p] EXCEPT !.pc = "start_user"]) /\ pidfile' = NoFile
    /\ UNCHANGED <<exitCb, kills>>

\* Lines 109-117: os.kill(pid, 0).
StartKill(p) ==
    /\ proc[p].pc = "start_kill"
    /\ IF AfterProbe(Alive(proc[p].pid)) = "returned"
       THEN Step(p, End(proc[p], "returned"))
       ELSE Step(p, [proc[p] EXCEPT !.pc = "start_user"])
    /\ UNCHANGED <<pidfile, exitCb, kills>>

\* A start() that logs a failed setuid and goes on.
StartUserGoesOn(p) ==
    /\ proc[p].pc = "start_user"
    /\ \E u \in {"", "known", "unknown"} :
          \/ /\ u = ""
             /\ Step(p, [proc[p] EXCEPT !.pc = "become_daemon"])
          \/ /\ u = "unknown"
             /\ Step(p, Fatal(proc[p], "user"))
          \/ /\ u = "known"
             /\ \/ Step(p, [proc[p] EXCEPT !.pc = "become_daemon",
                                           !.cred = "both"])
                \/ Step(p, [proc[p] EXCEPT !.pc = "become_daemon",
                                           !.cred = "gid", !.err = "setuid"])
                \/ Step(p, Fatal(proc[p], "setgid"))
    /\ UNCHANGED <<pidfile, exitCb, kills>>

\* Lines 120-133 with self.user = u ("" when no user is configured):
\* pwd.getpwnam(u), then os.setgid, then os.setuid; an unknown user (line
\* 127) and a failure of setgid or of setuid (line 133) are fatal.
StartUser(p) ==
    /\ proc[p].pc = "start_user"
    /\ \E u \in {"", "known", "unknown"} :
          \/ /\ u = ""
             /\ Step(p, [proc[p] EXCEPT !.pc = "become_daemon"])
          \/ /\ u = "unknown"
             /\ Step(p, Fatal(proc[p], "user"))
          \/ /\ u = "known"
             /\ \/ Step(p, [proc[p] EXCEPT !.pc = "become_daemon",
                                           !.cred = "both"])
                \/ Step(p, Fatal([proc[p] EXCEPT !.cred = "gid"], "setuid"))
                \/ Step(p, Fatal(proc[p], "setgid"))
    /\ UNCHANGED <<pidfile, exitCb, kills>>

\* become_daemon, lines 30-59.  First fork: the calling process p exits with
\* status 0 (line 36).  In the child: setsid, chdir, umask and the second
\* fork, after which the intermediate process exits (line 47) and the
\* grandchild redirects its streams and returns to start().  A fork that
\* raises OSError ends the process that called it with status 1.
become_daemon(p) ==
    /\ proc[p].pc = "become_daemon"
    /\ LET c == Child(p)
           d == Child(c)
       IN  \/ Step(p, End([proc[p] EXCEPT !.err = "fork"], "exit1"))
           \/ proc' = [proc EXCEPT ![p] = End(proc[p], "exit0"),
                                   ![c] = End([proc[p] EXCEPT !.err = "fork"],
                                              "exit1")]
           \/ proc' = [proc EXCEPT ![p] = End(proc[p], "exit0"),
                                   ![c] = End(proc[p], "exit0"),
                                   ![d] = [proc[p] EXCEPT !.pc = "create_open",
                                                          !.cred = "orig"]]
    /\ UNCHANGED <<pidfile, exitCb, kills>>

\* The positions of start() after it has read the pid file (or found none)
\* and before it has written it.
ProbedPcs == {"start_kill", "start_user", "become_daemon", "create_open",
              "create_write", "create_orphan"}

\* The process records once the pid file has been written by process p: the
\* processes between probe and write are marked (history only).
Written(f, p) == [q \in Procs |->
                   IF q # p /\ f[q].pc \in ProbedPcs
                   THEN [f[q] EXCEPT !.raced = TRUE] ELSE f[q]]

\* _create_pid_file, line 259: open(self.pid_file, 'w') creates or truncates
\* the file; OSError is fatal (lines 261-264).
CreateOpen(p) ==
    /\ proc[p].pc = "create_open"
    /\ \/ /\ pidfile' = File(<<>>)
          /\ Step(p, [proc[p] EXCEPT !.pc = "create_write"])
       \/ /\ pidfile' = pidfile
          /\ Step(p, End([proc[p] EXCEPT !.err = "pidfile"], "exit1"))
    /\ UNCHANGED <<exitCb, kills>>

\* The pid of the process that invoked the command, as if os.getpid() had
\* been read before daemonizing.
PidTextOfCaller(p) == str(Root(p))

\* Line 260: the text _create_pid_file writes in process p.
PidText(p) == str(p)

\* _create_pid_file, line 260: stream.write(str(os.getpid())) and the close
\* that flushes it; OSError is fatal.  After an unlink the text goes to the
\* unlinked inode and the name stays as it is.
CreateWrite(p) ==
    /\ proc[p].pc \in {"create_write", "create_orphan"}
    /\ \/ IF proc[p].pc = "create_write"
          THEN /\ pidfile' = File(PidText(p))
               /\ proc' = [Written(proc, p) EXCEPT
                             ![p] = [proc[p] EXCEPT !.pc = "install"]]
          ELSE /\ pidfile' = pidfile
               /\ Step(p, [proc[p] EXCEPT !.pc = "install"])
       \/ /\ pidfile' = pidfile
          /\ Step(p, End([proc[p] EXCEPT !.err = "pidfile"], "exit1"))
    /\ UNCHANGED <<exitCb, kills>>

\* Lines 140-173: running = [True]; signal.signal(SIGTERM, cb_term_handler).
Install(p) ==
    /\ proc[p].pc = "install"
    /\ Step(p, [proc[p] EXCEPT !.pc = "loop", !.running = TRUE,
                               !.handler = TRUE])
    /\ UNCHANGED <<pidfile, exitCb, kills>>

\* Line 175: `while running[0]:`; a true test invokes run() (line 177).
LoopTest(p) ==
    /\ proc[p].pc = "loop"
    /\ Runnable(p)
    /\ Step(p, [proc[p] EXCEPT !.pc = IF proc[p].running THEN "run"
                                      ELSE "finally"])
    /\ UNCHANGED <<pidfile, exitCb, kills>>

\* A loop that gives up at the first exception of run().
AfterRunFailFast(res) == IF res = "returns" THEN "loop" ELSE "finally"

\* What the loop does with the outcome of run(), lines 176-181: a return and
\* an Exception (caught and logged) go back to the loop test; an exception
\* that is not an Exception (SystemExit, KeyboardInterrupt) is not caught by
\* `except Exception` and leaves the loop through the finally clause.
AfterRun(res) == IF res = "base_exception" THEN "finally" ELSE "loop"

\* run() ends: it returns, raises an Exception, or raises a BaseException.
RunEnds(p) ==
    /\ proc[p].pc = "run"
    /\ Runnable(p)
    /\ \E res \in {"returns", "exception", "base_exception"} :
          Step(p, [proc[p] EXCEPT !.pc = AfterRun(res),
                                  !.raised = (res = "exception"),
                                  !.unwinding = (res = "base_exception")])
    /\ UNCHANGED <<pidfile, exitCb, kills>>

\* Lines 182-184 and the return of start(): os.remove(self.pid_file) in the
\* finally clause, then the process ends, with status 0 unless an exception
\* is propagating.  A missing file makes os.remove raise OSError, which
\* nothing catches.
Finally(p) ==
    /\ proc[p].pc = "finally"
    /\ Runnable(p)
    /\ IF pidfile.exists
       THEN /\ pidfile' = NoFile
            /\ proc' = [Unlinked(proc) EXCEPT
                          ![p] = End(proc[p], IF proc[p].unwinding
                                              THEN "exit1" ELSE "returned")]
       ELSE /\ pidfile' = pidfile
            /\ Step(p, End(proc[p], "crashed"))
    /\ UNCHANGED <<exitCb, kills>>

(* ----------------------- signals in the daemon ------------------------ *)
\* Process record r once a SIGTERM is delivered to it: with cb_term_handler
\* installed (line 171) the signal waits for the interpreter to run the
\* handler (signals that wait are merged); before that the default action
\* terminates the process.
Signalled(r) == IF r.handler THEN [r EXCEPT !.pending = TRUE]
                ELSE End(r, "killed")

\* A SIGTERM reaches daemon process t from elsewhere than stop().
SIGTERM(t) ==
    /\ kills < MaxKills
    /\ t \in Daemons
    /\ Alive(t)
    /\ Step(t, Signalled(proc[t]))
    /\ kills' = kills + 1
    /\ UNCHANGED <<pidfile, exitCb>>

\* What cb_term_handler does once exit() is behind it, lines 154-169:
\* running[0] = False, install cb_alrm_handler, signal.alarm(5).
Shutdown(r) == [r EXCEPT !.running = FALSE, !.alarm = AlarmSeconds]

\* The interpreter runs cb_term_handler for a delivered SIGTERM (line 142);
\* with an exit callback the handler first calls exit() (lines 151-153).
cb_term_handler(p) ==
    /\ proc[p].pending
    /\ Alive(p)
    /\ IF exitCb
       THEN Step(p, [proc[p] EXCEPT !.pending = FALSE, !.inExit = @ + 1,
                                    !.exits = @ + 1])
       ELSE Step(p, Shutdown([proc[p] EXCEPT !.pending = FALSE]))
    /\ UNCHANGED <<pidfile, exitCb, kills>>

\* exit() returns to cb_term_handler, which goes on with lines 154-169.  (An
\* exit() that never returns is a process that never takes this step.)
ExitReturns(p) ==
    /\ proc[p].inExit > 0
    /\ Alive(p)
    /\ Step(p, Shutdown([proc[p] EXCEPT !.inExit = @ - 1]))
    /\ UNCHANGED <<pidfile, exitCb, kills>>

\* One second of the armed alarm passes.
Tick(p) ==
    /\ Alive(p)
    /\ proc[p].alarm > 1
    /\ Step(p, [proc[p] EXCEPT !.alarm = @ - 1])
    /\ UNCHANGED <<pidfile, exitCb, kills>>

\* The alarm expires: cb_alrm_handler calls sys.exit(1) (lines 156-166).  The
\* SystemExit is raised wherever the process is: inside the loop (or an
\* exit() under it) it unwinds through the finally clause of line 182; past
\* the loop it ends the process at once.
cb_alrm_handler(p) ==
    /\ Alive(p)
    /\ proc[p].alarm = 1
    /\ IF InRunLoop(p)
       THEN Step(p, [proc[p] EXCEPT !.pc = "finally", !.alarm = 0,
                                    !.unwinding = TRUE, !.inExit = 0])
       ELSE Step(p, End(proc[p], "exit1"))
    /\ UNCHANGED <<pidfile, exitCb, kills>>

(* ------------------------------- stop --------------------------------- *)
\* A restart() that ends once stop() has returned.
AfterStopOnly(r) == End(r, "returned")

\* Where stop() returns to in the process with record r: restart goes on
\* with start() (lines 224-225).
AfterStop(r) == IF r.verb = "restart" THEN [r EXCEPT !.pc = "start_exists"]
                ELSE End(r, "returned")

\* A stop() that does not catch the ENOENT of a missing pid file.
StopOpenUncaught(p) ==
    /\ proc[p].pc = "stop_open"
    /\ IF pidfile.exists /\ Len(pidfile.data) > 0
       THEN Step(p, [proc[p] EXCEPT !.pc = "stop_kill", !.out = "Stopping.",
                                    !.pid = int(pidfile.data)])
       ELSE Step(p, End(proc[p], "crashed"))
    /\ UNCHANGED <<pidfile, exitCb, kills>>

\* Lines 192-201: open and read the pid file; ENOENT prints 'Stopped.' and
\* returns, an empty file raises ValueError (not caught).
StopOpen(p) ==
    /\ proc[p].pc = "stop_open"
    /\ IF ~pidfile.exists
       THEN Step(p, AfterStop([proc[p] EXCEPT !.out = "Stopped."]))
       ELSE IF Len(pidfile.data) = 0
       THEN Step(p, End(proc[p], "crashed"))
       ELSE Step(p, [proc[p] EXCEPT !.pc = "stop_kill", !.out = "Stopping.",
                                    !.pid = int(pidfile.data)])
    /\ UNCHANGED <<pidfile, exitCb, kills>>

\* Lines 202-207: os.kill(pid, SIGTERM).  A process with cb_term_handler
\* installed gets the signal queued for its handler; any other process is
\* terminated by the default action.  OSError (no such process) leads to
\* os.remove(self.pid_file), which raises when the file is gone.
StopKill(p) ==
    /\ proc[p].pc = "stop_kill"
    /\ LET t == proc[p].pid
           me == [proc[p] EXCEPT !.pc = "stop_poll", !.sigTo = t]
       IN  IF Alive(t)
           THEN /\ proc' = [proc EXCEPT
                              ![p] = me,
                              ![t] = Signalled(proc[t])]
                /\ pidfile' = pidfile
           ELSE IF pidfile.exists
           THEN /\ pidfile' = NoFile
                /\ proc' = [Unlinked(proc) EXCEPT ![p] = AfterStop(proc[p])]
           ELSE /\ pidfile' = pidfile
                /\ Step(p, End(proc[p], "crashed"))
    /\ UNCHANGED <<exitCb, kills>>

\* A polling loop that never waits.
PollNever == FALSE

\* The test of the polling loop, line 208: os.path.exists(self.pid_file).
PollAgain == pidfile.exists

\* Lines 208-212: while the pid file exists, print '.' and sleep 0.5 s (no
\* change of state); stop() returns once the test finds the file gone.
StopPoll(p) ==
    /\ proc[p].pc = "stop_poll"
    /\ ~PollAgain
    /\ Step(p, AfterStop(proc[p]))
    /\ UNCHANGED <<pidfile, exitCb, kills>>

(* ------------------------------ restart ------------------------------- *)
\* Lines 222-225: stop() if the pid file exists, then start().
restart(p) ==
    /\ proc[p].pc = "restart_exists"
    /\ Step(p, [proc[p] EXCEPT !.pc = IF pidfile.exists THEN "stop_open"
                                      ELSE "start_exists"])
    /\ UNCHANGED <<pidfile, exitCb, kills>>

(* ------------------------------ status -------------------------------- *)
\* Lines 232, 245-246: os.path.exists(self.pid_file).
StatusExists(p) ==
    /\ proc[p].pc = "status_exists"
    /\ IF pidfile.exists
       THEN Step(p, [proc[p] EXCEPT !.pc = "status_read"])
       ELSE Step(p, End([proc[p] EXCEPT !.out = "Stopped."], "returned"))
    /\ UNCHANGED <<pidfile, exitCb, kills>>

\* Lines 233-234: open and read the pid file.
StatusRead(p) ==
    /\ proc[p].pc = "status_read"
    /\ IF pidfile.exists /\ Len(pidfile.data) > 0
       THEN Step(p, [proc[p] EXCEPT !.pc = "status_kill",
                                    !.pid = int(pidfile.data)])
       ELSE Step(p, End(proc[p], "crashed"))
    /\ UNCHANGED <<pidfile, exitCb, kills>>

\* A status() that deletes the pid file it finds stale.
StatusKillHeals(p) ==
    /\ proc[p].pc = "status_kill"
    /\ Step(p, End([proc[p] EXCEPT !.out = IF Alive(proc[p].pid)
                                           THEN "Running." ELSE "Stopped."],
                   "returned"))
    /\ pidfile' = IF Alive(proc[p].pid) THEN pidfile ELSE NoFile
    /\ UNCHANGED <<exitCb, kills>>

\* Lines 235-244: os.kill(pid, 0) decides between 'Running.' and 'Stopped.'.
StatusKill(p) ==
    /\ proc[p].pc = "status_kill"
    /\ Step(p, End([proc[p] EXCEPT !.out = IF Alive(proc[p].pid)
                                           THEN "Running." ELSE "Stopped."],
                   "returned"))
    /\ UNCHANGED <<pidfile, exitCb, kills>>

\* What status() prints when it runs from the current state with no step of
\* another process in between (lines 232-246).
StatusNow == IF pidfile.exists /\ Len(pidfile.data) > 0
                /\ Alive(int(pidfile.data))
             THEN "Running." ELSE "Stopped."

(* ------------------------- the specification -------------------------- *)
Next ==
    \/ \E r \in Roots, v \in Verbs : execute(r, v)
    \/ \E p \in Procs :
          \/ StartExists(p)
          \/ StartRead(p)
          \/ StartKill(p)
          \/ StartUser(p)
          \/ become_daemon(p)
          \/ CreateOpen(p)
          \/ CreateWrite(p)
          \/ Install(p)
          \/ LoopTest(p)
          \/ RunEnds(p)
          \/ Finally(p)
          \/ SIGTERM(p)
          \/ cb_term_handler(p)
          \/ ExitReturns(p)
          \/ Tick(p)
          \/ cb_alrm_handler(p)
          \/ StopOpen(p)
          \/ StopKill(p)
          \/ StopPoll(p)
          \/ restart(p)
          \/ StatusExists(p)
          \/ StatusRead(p)
          \/ StatusKill(p)

Spec == Init /\ [][Next]_vars

TypeOK ==
    /\ kills \in 0..MaxKills
    /\ pidfile \in [exists : BOOLEAN, data : {<<>>} \cup {str(n) : n \in Procs}]
    /\ \A p \in Procs :
          /\ proc[p].pid \in 0..(2 + 3 * MaxCmds)
          /\ proc[p].alarm \in 0..AlarmSeconds
          /\ proc[p].inExit \in 0..(MaxCmds + MaxKills)
          /\ proc[p].exits \in 0..(MaxCmds + MaxKills)
          /\ proc[p].cred \in {"orig", "gid", "both"}
          /\ proc[p].err \in {"", "user", "setgid", "setuid", "fork", "pidfile"}

(* ====================================================================== *)
(*                              The claims                                *)
(* ====================================================================== *)
Mids == {Child(r) : r \in Roots}
Daemon(r) == Child(Child(r))

\* Process p moves on from position `at` in this step.
Leaves(p, at) == proc[p].pc = at /\ proc'[p].pc # at

\* No process other than p changes in this step.
OnlyChanges(p) == \A q \in Procs \ {p} : proc'[q] = proc[q]

(* ------------------------------- C1 ----------------------------------- *)
\* C1: when the pid that start() read from the pid file answers the liveness
\* probe, start() returns and nothing else happens: the process ends where
\* it is without a privilege change, no process is created or changed (no
\* fork, no daemon, no signal handler) and the pid file is as it was.
C1_StartAgainstLiveIsNoOp ==
    [][\A p \in Procs :
          Leaves(p, "start_kill") /\ Alive(proc[p].pid)
          => /\ proc'[p] = End(proc[p], "returned")
             /\ proc[p].cred = "orig"
             /\ pidfile' = pidfile
             /\ OnlyChanges(p)]_vars

\* A start() has returned at the probe while the pid file names a live
\* process.
C1_Witness ==
    \E r \in Roots :
       /\ proc[r].verb = "start"
       /\ proc[r].pc = "returned"
       /\ pidfile.exists /\ Len(pidfile.data) > 0 /\ Alive(int(pidfile.data))

(* ------------------------------- C2 ----------------------------------- *)
\* The pid file is absent and r is the only command that was ever invoked:
\* the configuration is as fresh as when r's start() was invoked.
FreshAndAlone(r) ==
    /\ ~pidfile.exists
    /\ \A q \in Roots \ {r} : proc[q].pc = "none"

\* C2: on a fresh configuration (no pid file), at the moment start has
\* returned to its caller (the invoking process exits at the first fork), a
\* status run at once reports Running and the pid file holds the decimal pid
\* of the daemon.
C2_StartThenStatusRunning ==
    [][\A r \in Roots :
          /\ proc[r].verb = "start"
          /\ FreshAndAlone(r)
          /\ Leaves(r, "become_daemon")
          /\ proc'[r].pc = "exit0"
          => /\ StatusNow' = "Running."
             /\ Names(Daemon(r))']_vars

(* ------------------------------- C3 ----------------------------------- *)
\* C3: stop() that finds no pid file prints 'Stopped.' and returns; it
\* delivers no signal (no other process changes) and the pid file stays
\* absent (nothing is created or removed).
C3_StopWithoutPidFile ==
    [][\A p \in Procs :
          Leaves(p, "stop_open") /\ ~pidfile.exists
          => /\ proc'[p] = AfterStop([proc[p] EXCEPT !.out = "Stopped."])
             /\ proc'[p].sigTo = 0
             /\ pidfile' = pidfile
             /\ OnlyChanges(p)]_vars

\* A stop command has returned after printing 'Stopped.', no signal sent.
C3_Witness ==
    \E r \in Roots :
       /\ proc[r].verb = "stop"
       /\ proc[r].pc = "returned"
       /\ proc[r].out = "Stopped."
       /\ proc[r].sigTo = 0
       /\ ~pidfile.exists

(* ------------------------------- C4 ----------------------------------- *)
\* C4: once stop() has delivered SIGTERM to the pid it read, it does not
\* return while the pid file exists (the step that leaves the polling loop
\* sees no file), and from its return on the pid file never names the
\* signalled process.
C4_StopWaitsForRemoval ==
    /\ [](\A p \in Procs :
             proc[p].sigTo # 0 /\ proc[p].pc # "stop_poll"
             => ~Names(proc[p].sigTo))
    /\ [][\A p \in Procs :
             Leaves(p, "stop_poll") => ~pidfile.exists /\ ~pidfile'.exists]_vars

\* A stop command has signalled a daemon, waited and returned.
C4_Witness ==
    \E r \in Roots :
       /\ proc[r].verb = "stop"
       /\ proc[r].pc = "returned"
       /\ proc[r].sigTo \in Daemons
       /\ ~pidfile.exists

(* ------------------------------- C5 ----------------------------------- *)
StopPcs == {"stop_open", "stop_kill", "stop_poll"}

\* Process d writes the pid file in this step: the open() that truncates it
\* or the write of the pid.
Writes(d) ==
    \/ proc[d].pc = "create_open" /\ proc'[d].pc = "create_write"
    \/ proc[d].pc = "create_write" /\ proc'[d].pc = "install"

Undisturbed(p) ==
    /\ proc[p].running
    /\ ~proc[p].pending
    /\ proc[p].inExit = 0
    /\ proc[p].alarm = 0

\* C6 as stated: whatever exception run() raises, if no termination signal
\* was delivered the loop goes on: the daemon is back at the loop test with
\* the stop flag unset and the pid file in place.
C6_AnyExceptionIsSurvived ==
    [][\A p \in Procs :
          /\ Leaves(p, "run")
          /\ proc'[p].raised \/ proc'[p].unwinding
          /\ Undisturbed(p)
          => /\ proc'[p].pc = "loop"
             /\ proc'[p].running
             /\ pidfile' = pidfile]_vars

\* C6 amended: when run() raises an Exception the daemon is back at the loop
\* test with nothing else changed (stop flag, pid file), and a loop test with
\* the stop flag unset invokes run() again; the daemon leaves the loop only
\* with the stop flag set by a termination signal, at the expiry of the
\* alarm, or when run() raises an exception that is not an Exception.
C6_ExceptionIsSurvived ==
    /\ [][\A p \in Procs :
             Leaves(p, "run") /\ proc'[p].raised /\ ~proc'[p].unwinding
             => /\ proc'[p] = [proc[p] EXCEPT !.pc = "loop", !.raised = TRUE]
                /\ pidfile' = pidfile]_vars
    /\ [][\A p \in Procs :
             Leaves(p, "loop") /\ proc[p].running => proc'[p].pc = "run"]_vars
    /\ [][\A p \in Procs :
             InRunLoop(p) /\ ~InRunLoop(p)'
             => \/ ~proc[p].running
                \/ proc[p].alarm = 1
                \/ proc[p].pc = "run" /\ proc'[p].unwinding]_vars

\* A run() invocation is under way after the previous one raised.
C6_Witness ==
    \E p \in Daemons :
       /\ proc[p].pc = "run"
       /\ proc[p].raised
       /\ proc[p].running
       /\ Names(p)

(* ------------------------------- C7 ----------------------------------- *)
\* C7: a daemon that has written its pid file and is ended by a termination
\* signal leaves no pid file behind: when it is gone the pid file does not
\* name it.
C7_SignalledDaemonRemovesPidFile ==
    \A d \in Daemons : proc[d].pc = "killed" => ~Names(d)

(* ------------------------------- C8 ----------------------------------- *)
\* C8: the shutdown request arms the escalation timer whatever exit() does:
\* while a daemon is inside exit() the alarm is armed, so that an exit()
\* that never returns is cut short.
C8_EscalationArmedDuringExit ==
    \A p \in Procs : Alive(p) /\ proc[p].inExit > 0 => proc[p].alarm > 0

(* ------------------------------- C9 ----------------------------------- *)
\* The pid file records a process that is alive.
LiveRecord ==
    pidfile.exists /\ Len(pidfile.data) > 0 /\ Alive(int(pidfile.data))

\* C9 as stated: start never writes the pid file while it records a live
\* process, and at most one daemon is in its run loop at any time.
C9_SingleInstance ==
    /\ [](Cardinality({d \in Daemons : InRunLoop(d)}) <= 1)
    /\ [][\A d \in Daemons : Writes(d) => ~LiveRecord]_vars

\* C9 amended: start writes the pid file over the record of a live process
\* only if the pid file was written after this start had probed it (read it
\* or found it absent).
C9_OverwriteOnlyInRace ==
    [][\A d \in Daemons : Writes(d) /\ LiveRecord => proc[d].raced]_vars

\* Two starts raced: a daemon that probed before the other wrote has put its
\* own pid in the file while the other is in its run loop.
C9_Witness ==
    \E d, e \in Daemons :
       /\ d # e
       /\ proc[d].raced /\ Alive(d) /\ Names(d)
       /\ InRunLoop(e)

(* ------------------------------- C10 ---------------------------------- *)
\* C10: the pid file never holds the pid of a process that invoked a command
\* nor of a first-fork child; a daemon's pid is in it only when that
\* daemon's daemonization is complete (both its ancestors have exited) and
\* the daemon has got past opening the file.
C10_PidFileNamesDetached ==
    pidfile.exists /\ Len(pidfile.data) > 0
    => LET n == int(pidfile.data)
       IN  /\ n \notin Roots \cup Mids
           /\ n \in Daemons
              => /\ proc[Root(n)].pc = "exit0"
                 /\ proc[Child(Root(n))].pc = "exit0"
                 /\ proc[n].pc \notin {"none", "create_open"}

\* The pid file holds the pid of a live daemon.
C10_Witness ==
    \E d \in Daemons : Names(d) /\ Alive(d)

(* ------------------------------- C11 ---------------------------------- *)
\* The pid file is removed in this step.
Removed == pidfile.exists /\ ~pidfile'.exists

\* C11 as stated: every removal of the pid file is done by the daemon whose
\* pid the file records, as it leaves its run loop with its shutdown handled
\* (stop flag set, no exit() under way); no other process removes it.
C11_OnlyOwnerRemoves ==
    [][Removed
       => \E d \in Daemons :
             /\ Names(d)
             /\ proc[d].pc = "finally" /\ proc'[d].pc \in Terminal
             /\ ~proc[d].running
             /\ proc[d].inExit = 0]_vars

\* C11 amended: the pid file is removed only by a daemon at the finally
\* clause of its run loop, or by a stop() whose signal found no process.  The
\* daemon does so with the stop flag set (its handler is past exit()) or
\* while an exception that is not an Exception leaves run(); the file then
\* records its own pid unless another start has daemonized as well.
C11_RemovedAtLoopExitOrByStaleStop ==
    [][Removed
       => \/ \E d \in Daemons :
                /\ proc[d].pc = "finally"
                /\ proc'[d].pc \in {"returned", "exit1"}
                /\ ~proc[d].running \/ (proc[d].unwinding /\ proc[d].alarm = 0)
                /\ Names(d) \/ \E e \in Daemons \ {d} : proc[e].pc # "none"
          \/ \E p \in Roots :
                /\ proc[p].pc = "stop_kill"
                /\ ~Alive(proc[p].pid)
                /\ proc'[p] = AfterStop(proc[p])]_vars

\* A daemon has left its run loop and removed the pid file, and a stop() has
\* removed a stale pid file without signalling anything.
C11_Witness ==
    /\ ~pidfile.exists
    /\ \E d \in Daemons : proc[d].pc = "returned"
    /\ \E r \in Roots :
          /\ proc[r].verb = "stop" /\ proc[r].pc = "returned"
          /\ proc[r].out = "Stopping." /\ proc[r].sigTo = 0

(* ------------------------------- C12 ---------------------------------- *)
\* C12: within one daemon lifetime exit() is invoked at most once, and that
\* invocation comes before the stop flag is set (so before the loop can see
\* it), however many termination signals are delivered.
C12_ExitAtMostOnce ==
    [][\A p \in Procs :
          proc'[p].exits > proc[p].exits
          => proc[p].exits = 0 /\ proc[p].running]_vars

(* ------------------------------- C13 ---------------------------------- *)
\* C13: a status command always ends with a report: 'Running.' when the pid
\* file exists and the pid it read from it answers the liveness probe, and
\* 'Stopped.' in every other case.
C13_StatusReportsExactly ==
    [][\A p \in Roots :
          /\ proc[p].verb = "status"
          /\ proc[p].pc \notin Terminal
          /\ proc'[p].pc \in Terminal
          => proc'[p].out = IF /\ proc[p].pc = "status_kill"
                               /\ Alive(proc[p].pid)
                            THEN "Running." ELSE "Stopped."]_vars

(* ------------------------------- C14 ---------------------------------- *)
\* The positions inside start() and inside status().
StartPcs == {"start_exists", "start_read"} \cup ProbedPcs
            \cup {"install", "loop", "run", "finally"}
StatusPcs == {"status_exists", "status_read", "status_kill"}

\* The positions a command with verb v can be at: those of the method named
\* v and of the methods that method calls itself (restart calls stop and
\* start).
PcsOf(v) == CASE v = "start" -> StartPcs
              [] v = "stop" -> StopPcs
              [] v = "status" -> StatusPcs
              [] v = "restart" -> {"restart_exists"} \cup StopPcs \cup StartPcs
              [] OTHER -> {"alien"}

\* C14: execute(action, run, exit) enters the method named by action at its
\* first statement and touches nothing else; from then on the process (and
\* the processes it forks) is inside that verb only, and stop and status
\* never fork.
C14_ExecuteInvokesNamedVerb ==
    /\ [][\A r \in Roots :
             proc[r].pc = "none" /\ proc'[r].pc # "none"
             => /\ proc'[r].verb \in Verbs
                /\ proc'[r].pc = CASE proc'[r].verb = "start" -> "start_exists"
                                   [] proc'[r].verb = "stop" -> "stop_open"
                                   [] proc'[r].verb = "restart" -> "restart_exists"
                                   [] proc'[r].verb = "status" -> "status_exists"
                /\ pidfile' = pidfile
                /\ OnlyChanges(r)]_vars
    /\ [](\A p \in Procs :
             /\ Alive(p) => proc[p].pc \in PcsOf(proc[p].verb)
             /\ Alive(p) /\ proc[p].verb \in {"stop", "status"} => p \in Roots)

\* A stop command and a status command are each inside their own method.
C14_Witness ==
    \E r, q \in Roots :
       /\ proc[r].verb = "stop" /\ proc[r].pc = "stop_kill"
       /\ proc[q].verb = "status" /\ proc[q].pc = "status_kill"

(* ------------------------------- C15 ---------------------------------- *)
\* Process p is at os.kill(pid, SIGTERM) of stop() and the pid it read names
\* no live process: this step is the undeliverable-signal path.
StopFindsStale(p) ==
    Leaves(p, "stop_kill") /\ ~Alive(proc[p].pid)

\* C15: a stop() whose signal cannot be delivered removes the pid file and
\* returns normally (restart goes on with start) without polling and
\* without having signalled anything; afterwards the pid file is absent.
C15_StopCleansStaleFile ==
    [][\A p \in Roots :
          StopFindsStale(p)
          => /\ ~pidfile'.exists
             /\ proc'[p] = AfterStop(proc[p])
             /\ proc'[p].sigTo = 0]_vars

(* ------------------------------- C16 ---------------------------------- *)
\* C16: a removal of the pid file that finds it already absent, at the end
\* of the run loop or on the undeliverable-signal path of stop(), completes
\* without an error and changes nothing.
C16_RemoveIsIdempotent ==
    [][\A p \in Procs :
          /\ ~pidfile.exists
          /\ Leaves(p, "finally") \/ StopFindsStale(p)
          => /\ proc'[p].pc # "crashed"
             /\ pidfile' = pidfile]_vars

(* ------------------------------- C17 ---------------------------------- *)
\* C17: a process that met a fatal setup error has ended with a non-zero
\* status.  After an unknown user or a failed setgid/setuid it is the
\* invoking process that ended and nothing was forked from it, so there is
\* no daemon, no pid-file write and no run(); setgid comes before setuid (a
\* failed setgid leaves the credentials as they were, a failed setuid has
\* the group already changed).  After a failed pid-file write it is the
\* daemon that ended, and the failing step found it without the termination
\* handler, outside the run loop, and took it straight to its end.
C17_FatalSetupErrorsEndTheProcess ==
    /\ [](\A p \in Procs :
             /\ proc[p].err # "" => proc[p].pc = "exit1"
             /\ proc[p].err \in {"user", "setgid", "setuid"}
                => /\ p \in Roots
                   /\ proc[Child(p)].pc = "none"
                   /\ proc[Daemon(p)].pc = "none"
             /\ proc[p].err \in {"user", "setgid"} => proc[p].cred = "orig"
             /\ proc[p].err = "setuid" => proc[p].cred = "gid"
             /\ proc[p].err = "pidfile" => p \in Daemons)
    /\ [][\A p \in Procs :
             proc[p].err = "" /\ proc'[p].err # ""
             => /\ ~proc[p].handler /\ ~proc[p].running
                /\ proc[p].pc \notin {"install", "loop", "run", "finally"}
                /\ proc'[p].err \in {"user", "setgid", "setuid"}
                   => proc[p].pc = "start_user" /\ pidfile' = pidfile
                /\ proc'[p].err = "pidfile"
                   => proc[p].pc \in {"create_open", "create_write",
                                      "create_orphan"}]_vars

\* One start has ended at a failed setuid and the daemon of another at a
\* failed pid-file write.
C17_Witness ==
    \E r \in Roots, d \in Daemons :
       /\ proc[r].err = "setuid" /\ proc[r].pc = "exit1"
       /\ proc[d].err = "pidfile" /\ proc[d].pc = "exit1"

(* ------------------------------- C18 ---------------------------------- *)
\* Command r is the only command that was ever invoked.
Alone(r) == \A q \in Roots \ {r} : proc[q].pc = "none"

\* C18: a start() whose probe finds the recorded pid dead goes on from the
\* same point as one that finds no pid file and leaves the stale file as it
\* is; the daemon's open() empties the file and its write leaves exactly the
\* daemon's decimal pid in it; no step of the daemon up to and inside its
\* run loop disturbs that content, so that with no other command about, a
\* daemon in its run loop is recorded by the pid file.
C18_StartOverStaleFile ==
    /\ [][\A p \in Procs :
             \/ Leaves(p, "start_kill") /\ ~Alive(proc[p].pid)
             \/ Leaves(p, "start_exists") /\ ~pidfile.exists
             => /\ proc'[p] = [proc[p] EXCEPT !.pc = "start_user"]
                /\ pidfile' = pidfile
                /\ OnlyChanges(p)]_vars
    /\ [][\A d \in Daemons :
             /\ proc[d].pc = "create_open" /\ proc'[d].pc = "create_write"
                => pidfile' = File(<<>>)
             /\ proc[d].pc = "create_write" /\ proc'[d].pc = "install"
                => pidfile' = File(str(d))
             /\ Names(d) /\ proc'[d] # proc[d] /\ InRunLoop(d)'
                => Names(d)']_vars
    /\ [](\A r \in Roots :
             Alone(r) /\ InRunLoop(Daemon(r)) => Names(Daemon(r)))

\* A daemon whose start() had read the stale pid 2 from the pid file is in
\* its run loop, and the pid file holds its pid.
C18_Witness ==
    \E d \in Daemons :
       /\ proc[d].pid = 2
       /\ InRunLoop(d)
       /\ Names(d)

(* ------------------------------- C19 ---------------------------------- *)
\* C19: whenever stop() removes the pid file, the file does not hold the pid
\* of a live daemon: no daemon that is starting or running loses its record
\* to a stop().
C19_StopNeverRemovesLiveRecord ==
    [][\A p \in Roots :
          StopFindsStale(p) /\ Removed
          => \A d \in Daemons : Alive(d) => ~Names(d)]_vars

(* ------------------------------- C20 ---------------------------------- *)
\* C20: once the escalation timer of a daemon is armed, the time left until
\* it fires never grows while the daemon lives, whatever further signals
\* arrive.
C20_DeadlineNeverPostponed ==
    [][\A p \in Procs :
          proc[p].alarm > 0 /\ Alive(p)'
          => proc'[p].alarm <= proc[p].alarm]_vars

====
